---- MODULE Spec2Model ----
(***************************************************************************)
(* Model of src/volume/element.rs of nifti-rs: the DataElement decoders    *)
(* (from_raw, from_raw_vec and its per-type overrides) and the three       *)
(* LinearTransform strategies.                                             *)
(*                                                                         *)
(* A decoded element is its bit pattern: the tuple of its bytes, least     *)
(* significant first ("limbs").  ValueOf gives the number an integer type  *)
(* reads in it.  Numbers handled by the transforms are counted in quarters *)
(* (x stands for x/4), so that the halves used as slopes and intercepts    *)
(* and their products are integers of the model.                           *)
(***************************************************************************)
EXTENDS Integers, Sequences, FiniteSets, TLC

\* Longest raw buffer, in bytes.
MaxBufLen == 64
\* Longest sequence of values handed to the bulk transforms.
MaxSeqLen == 2
\* Longest sample sequence of the encode/decode round trip.
MaxElems == 3

----------------------------------------------------------------------------
\* Types, byte orders, build targets

Types == {"u8", "i8", "u16", "i16", "u32", "i32", "u64", "i64", "f32", "f64"}

IntTypes == {"u8", "i8", "u16", "i16", "u32", "i32", "u64", "i64"}

Signed == {"i8", "i16", "i32", "i64"}

Endiannesses == {"LE", "BE"}

\* The build targets: they differ in host byte order and in align_of of the
\* 8-byte types.
Targets == {"x86_64", "i686", "powerpc64"}

host_endianness(tg) == IF tg = "powerpc64" THEN "BE" ELSE "LE"

\* size_of::<T>()
Width(t) ==
    CASE t \in {"u8", "i8"} -> 1
      [] t \in {"u16", "i16"} -> 2
      [] t \in {"u32", "i32", "f32"} -> 4
      [] t \in {"u64", "i64", "f64"} -> 8

\* align_of::<T>()
align_of(t, tg) ==
    IF Width(t) = 8 /\ tg = "i686" THEN 4 ELSE Width(t)

\* type Transform of each impl DataElement
Transform(t) ==
    CASE t \in {"u8", "i8", "u16", "i16", "u32", "i32"} -> "ViaF32"
      [] t \in {"u64", "i64"} -> "ViaF64"
      [] t \in {"f32", "f64"} -> "ViaOriginal"

----------------------------------------------------------------------------
\* Sequences of bytes

Reverse(s) == [i \in 1..Len(s) |-> s[Len(s) + 1 - i]]

\* The i-th group of w bytes of a buffer (i from 1).
Chunk(v, i, w) == SubSeq(v, (i - 1) * w + 1, i * w)

\* What is left of a byte source after w bytes were read.
Advance(src, w) == SubSeq(src, w + 1, Len(src))

\* Results: Ok(val), Err(io error) and a panic (no value is returned).
Ok(val) == [kind |-> "ok", val |-> val]

ErrIo == [kind |-> "io", val |-> <<>>]

Panic == [kind |-> "panic", val |-> <<>>]

----------------------------------------------------------------------------
\* Readers of one element

\* byteorder's read_u8 / read_i8: one byte, or UnexpectedEof.
read_byte(src) ==
    IF Len(src) < 1 THEN ErrIo ELSE Ok(<<src[1]>>)

\* Endianness::read_u16 .. read_f64: Width bytes reassembled in order e,
\* or UnexpectedEof when the source is shorter.
Endianness_read(t, src, e) ==
    IF Len(src) < Width(t) THEN ErrIo
    ELSE Ok(IF e = "LE" THEN Chunk(src, 1, Width(t))
                        ELSE Reverse(Chunk(src, 1, Width(t))))

\* DataElement::from_raw of the ten impls; map_err(From::from) keeps the error.
from_raw(t, src, e) ==
    IF t \in {"u8", "i8"} THEN read_byte(src) ELSE Endianness_read(t, src, e)

----------------------------------------------------------------------------
\* Bulk decoders

\* The w bytes of one element as they lie in host memory, read as a T.
NativeLimbs(chunk, host) == IF host = "LE" THEN chunk ELSE Reverse(chunk)

\* safe_transmute: the buffer reinterpreted as Vec<T>; bytes after the last
\* whole element are dropped ("permissive").
guarded_transmute_pod_vec_permissive(t, v, host) ==
    [i \in 1..(Len(v) \div Width(t)) |-> NativeLimbs(Chunk(v, i, Width(t)), host)]

\* util::adapt_bytes: every whole element byte-swapped in place when the
\* source order is not the host's.
adapt_bytes(t, v, e, host) ==
    IF e = host THEN v
    ELSE [p \in 1..Len(v) |->
            LET w == Width(t)
                i == (p - 1) \div w
            IN  IF (i + 1) * w > Len(v) THEN v[p]
                ELSE v[i * w + (w - ((p - 1) % w))]]

\* How util::convert_bytes_to treats bytes after the last whole element: its
\* result is a Vec<T> (the callers wrap it in Ok), so it drops them or panics.
TailPolicies == {"drop", "panic"}

\* util::convert_bytes_to
convert_bytes_to(t, v, e, host, tail) ==
    IF Len(v) % Width(t) # 0 /\ tail = "panic" THEN Panic
    ELSE Ok(guarded_transmute_pod_vec_permissive(t, adapt_bytes(t, v, e, host), host))

\* from_raw_vec with the byte order handed on inverted.
from_raw_vec_swapped(t, v, e, host, tail) ==
    CASE t = "u8" -> Ok([i \in 1..Len(v) |-> <<v[i]>>])
      [] t = "i8" -> Ok(guarded_transmute_pod_vec_permissive(t, v, host))
      [] OTHER -> convert_bytes_to(t, v, IF e = "LE" THEN "BE" ELSE "LE", host, tail)

\* The from_raw_vec overrides of the ten impls.
from_raw_vec(t, v, e, host, tail) ==
    CASE t = "u8" -> Ok([i \in 1..Len(v) |-> <<v[i]>>])
      [] t = "i8" -> Ok(guarded_transmute_pod_vec_permissive(t, v, host))
      [] OTHER -> convert_bytes_to(t, v, e, host, tail)

\* The collection that ends at the first error and keeps what it read so far.
RECURSIVE collect_swallow(_, _, _, _, _)
collect_swallow(t, cursor, e, n, acc) ==
    IF n = 0 THEN Ok(acc)
    ELSE LET r == from_raw(t, cursor, e)
         IN  IF r.kind # "ok" THEN Ok(acc)
             ELSE collect_swallow(t, Advance(cursor, Width(t)), e, n - 1, Append(acc, r.val))

\* (0..n).map(|_| from_raw(&mut cursor, e)).collect::<Result<Vec<_>>>():
\* n elements read one after the other, the first error ending the collection.
RECURSIVE collect(_, _, _, _, _)
collect(t, cursor, e, n, acc) ==
    IF n = 0 THEN Ok(acc)
    ELSE LET r == from_raw(t, cursor, e)
         IN  IF r.kind # "ok" THEN [kind |-> r.kind, val |-> <<>>]
             ELSE collect(t, Advance(cursor, Width(t)), e, n - 1, Append(acc, r.val))

\* The trait's default DataElement::from_raw_vec.
from_raw_vec_default(t, v, e, tg) ==
    collect(t, v, e, align_of(t, tg), <<>>)

----------------------------------------------------------------------------
\* Numbers

Unsigned == {"u8", "u16", "u32", "u64"}

Narrow == {"u8", "i8", "u16", "i16"}

\* The number an unsigned integer reads in a bit pattern.
RECURSIVE LimbsValue(_)
LimbsValue(l) ==
    IF l = <<>> THEN 0 ELSE l[1] + 256 * LimbsValue(Tail(l))

Complement(l) == [i \in 1..Len(l) |-> 255 - l[i]]

Negative(t, l) == t \in Signed /\ l[Len(l)] >= 128

\* The bit patterns whose value is a number of the model (below 2^24 in size).
Representable(t, l) ==
    LET m == IF Negative(t, l) THEN Complement(l) ELSE l
    IN  \A i \in 1..Len(l) : i > 3 => m[i] = 0

\* The value of an integer type's bit pattern (two's complement when signed).
ValueOf(t, l) ==
    IF Negative(t, l) THEN 0 - (LimbsValue(Complement(l)) + 1) ELSE LimbsValue(l)

\* Number of binary digits of n > 0.
RECURSIVE BitLen(_)
BitLen(n) == IF n = 0 THEN 0 ELSE 1 + BitLen(n \div 2)

\* n >= 0 rounded to `bits` significant binary digits, ties to even: the
\* rounding of every IEEE 754 conversion and operation.
RoundMag(n, bits) ==
    IF BitLen(n) <= bits THEN n
    ELSE LET q == 2 ^ (BitLen(n) - bits)
             lo == (n \div q) * q
             rem == n - lo
         IN  IF 2 * rem < q THEN lo
             ELSE IF 2 * rem > q THEN lo + q
             ELSE IF (n \div q) % 2 = 0 THEN lo ELSE lo + q

RoundSig(n, bits) ==
    IF n >= 0 THEN RoundMag(n, bits) ELSE 0 - RoundMag(0 - n, bits)

\* f32 and f64 arithmetic on quarters.
round_f32(x) == RoundSig(x, 24)

round_f64(x) == RoundSig(x, 53)

\* The exact product of two numbers given in quarters (both a whole number
\* of halves, so that the product is a whole number of quarters).
mul(a, b) == (a * b) \div 4

\* A value of type t in quarters: the integer types hold whole numbers, the
\* float types hold quarters already.
Quarters(t, v) == IF t \in IntTypes THEN 4 * v ELSE v

\* value.as_() into f32 and into f64
as_f32(t, v) == round_f32(Quarters(t, v))

as_f64(t, v) == round_f64(Quarters(t, v))

\* Truncation toward zero of a number in quarters.
Trunc(x) == IF x >= 0 THEN x \div 4 ELSE 0 - ((0 - x) \div 4)

\* The float-to-integer cast saturates at the bounds of the target type.  The
\* numbers of the model stay below 2^31 in size, inside i32, i64 and under
\* the maxima of u32 and u64, so only these bounds can be met.
Saturate(t, n) ==
    CASE t \in Unsigned /\ n < 0 -> 0
      [] t = "u8" /\ n > 255 -> 255
      [] t = "u16" /\ n > 65535 -> 65535
      [] t = "i8" /\ n > 127 -> 127
      [] t = "i8" /\ n < 0 - 128 -> 0 - 128
      [] t = "i16" /\ n > 32767 -> 32767
      [] t = "i16" /\ n < 0 - 32768 -> 0 - 32768
      [] OTHER -> n

\* (...).as_() from the working float x back into a T.
as_T(t, x) ==
    CASE t \in IntTypes -> Saturate(t, Trunc(x))
      [] t = "f32" -> round_f32(x)
      [] t = "f64" -> round_f64(x)

----------------------------------------------------------------------------
\* Linear transforms

Strategies == {"ViaF32", "ViaF64", "ViaOriginal"}

\* The via-f32 transform without its zero-slope return.
linear_transform_f32_no_identity(t, value, slope, intercept) ==
    as_T(t, round_f32(round_f32(mul(as_f32(t, value), slope)) + intercept))

\* The via-f32 transform that leaves the intercept out.
linear_transform_f32_no_intercept(t, value, slope, intercept) ==
    IF slope = 0 THEN value
    ELSE as_T(t, round_f32(mul(as_f32(t, value), slope)))

\* LinearTransformViaF32::linear_transform
linear_transform_f32(t, value, slope, intercept) ==
    IF slope = 0 THEN value
    ELSE as_T(t, round_f32(round_f32(mul(as_f32(t, value), slope)) + intercept))

\* LinearTransformViaF64::linear_transform
linear_transform_f64(t, value, slope, intercept) ==
    IF slope = 0 THEN value
    ELSE as_T(t, round_f64(round_f64(mul(as_f64(t, value), slope)) + intercept))

\* LinearTransformViaOriginal::linear_transform for T = f32 and T = f64: the
\* product and the sum are T's own.
linear_transform_original(t, value, slope, intercept) ==
    IF slope = 0 THEN value
    ELSE IF t = "f32" THEN round_f32(round_f32(mul(value, slope)) + intercept)
    ELSE round_f64(round_f64(mul(value, slope)) + intercept)

\* LinearTransform::linear_transform of the three implementors.
linear_transform(st, t, value, slope, intercept) ==
    CASE st = "ViaF32" -> linear_transform_f32(t, value, slope, intercept)
      [] st = "ViaF64" -> linear_transform_f64(t, value, slope, intercept)
      [] st = "ViaOriginal" -> linear_transform_original(t, value, slope, intercept)

\* LinearTransform::linear_transform_many: iter().map(..).collect()
linear_transform_many(st, t, value, slope, intercept) ==
    [k \in 1..Len(value) |-> linear_transform(st, t, value[k], slope, intercept)]

\* The loop of linear_transform_many_inline from position k on.
RECURSIVE inline_loop(_, _, _, _, _, _)
inline_loop(st, t, value, slope, intercept, k) ==
    IF k > Len(value) THEN value
    ELSE inline_loop(st, t,
                     [value EXCEPT ![k] = linear_transform(st, t, value[k], slope, intercept)],
                     slope, intercept, k + 1)

\* The in-place loop run twice over the slice.
linear_transform_many_inline_twice(st, t, value, slope, intercept) ==
    inline_loop(st, t, inline_loop(st, t, value, slope, intercept, 1), slope, intercept, 1)

\* LinearTransform::linear_transform_many_inline: the caller's slice afterwards.
linear_transform_many_inline(st, t, value, slope, intercept) ==
    inline_loop(st, t, value, slope, intercept, 1)

----------------------------------------------------------------------------
\* Inputs

\* A buffer of n bytes: base, base + stride, base + 2 stride, ... (mod 256).
PatBuf(n, base, stride) == [i \in 1..n |-> (base + (i - 1) * stride) % 256]

ByteSamples == {0, 1, 127, 128, 255}

\* Every buffer of at most two sampled bytes.
ShortBufs ==
    {<<>>} \cup {<<a>> : a \in ByteSamples}
           \cup {<<a, b>> : a \in ByteSamples, b \in ByteSamples}

Buffers ==
    ShortBufs \cup
    {PatBuf(n, base, stride) : n \in 0..MaxBufLen, base \in {0, 1, 200},
                               stride \in {0, 1, 255}}

\* A sequence of k elements of w bytes each, as bit patterns.
SampleSeq(k, w, base, stride) ==
    [i \in 1..k |-> [j \in 1..w |-> (base + ((i - 1) * w + (j - 1)) * stride) % 256]]

SampleSeqs(t) ==
    {SampleSeq(k, Width(t), base, stride) :
        k \in 0..MaxElems, base \in {0, 1, 127, 200}, stride \in {0, 1, 255, 67}}

\* Values of each type handed to the transforms: whole numbers for the
\* integer types, quarters (all of them whole halves the type holds exactly)
\* for the float types.
Samples(t) ==
    CASE t = "u8" -> {0, 1, 128, 255}
      [] t = "i8" -> {0 - 128, 0 - 1, 1, 127}
      [] t = "u16" -> {0, 1, 256, 65535}
      [] t = "i16" -> {0 - 32768, 0 - 1, 1, 32767}
      [] t = "u32" -> {0, 1, 16777217, 33554431}
      [] t = "i32" -> {0 - 16777217, 0 - 1, 1, 16777219}
      [] t = "u64" -> {0, 1, 16777217, 33554433}
      [] t = "i64" -> {0 - 33554431, 0, 1, 16777217}
      [] t = "f32" -> {0, 2, 0 - 6, 67108864}
      [] t = "f64" -> {0, 2, 0 - 6, 67108868}

\* Slopes 0.0, 1.0, 2.0, 0.5, -1.0 and intercepts 0.0, 1.0, -0.5, in quarters.
Slopes == {0, 4, 8, 2, 0 - 4}

Intercepts == {0, 4, 0 - 2}

RECURSIVE SeqsUpTo(_, _)
SeqsUpTo(S, n) ==
    IF n = 0 THEN {<<>>}
    ELSE LET shorter == SeqsUpTo(S, n - 1)
         IN  shorter \cup {Append(s, x) : s \in {r \in shorter : Len(r) = n - 1}, x \in S}

\* The strategies the model applies to a type.  LinearTransformViaOriginal on
\* an integer T multiplies and adds in T, where an overflow panics or wraps
\* with the build profile: the source instantiates it for f32 and f64 only,
\* and so does the model.
StrategiesOf(t) ==
    IF t \in IntTypes THEN {"ViaF32", "ViaF64"} ELSE Strategies

\* The bytes of one element written in order e.
to_bytes(l, e) == IF e = "LE" THEN l ELSE Reverse(l)

\* The buffer holding a sample sequence written in order e, no padding.
to_bytes_many(t, s, e) ==
    [p \in 1..(Len(s) * Width(t)) |->
        to_bytes(s[((p - 1) \div Width(t)) + 1], e)[((p - 1) % Width(t)) + 1]]

----------------------------------------------------------------------------
\* State

VARIABLES
    target,       \* the build target
    op,           \* the operation that ran last
    ty,           \* its element type
    endianness,   \* its byte order
    vec,          \* the raw buffer (or byte source) it was given
    res,          \* the decoder's result
    samples,      \* the sample sequence a round trip started from
    strategy,     \* the LinearTransform implementor
    vals,         \* the values given to the transform
    slope,
    intercept,
    out           \* the transformed values

vars == <<target, op, ty, endianness, vec, res, samples, strategy, vals, slope,
          intercept, out>>

decodeVars == <<ty, endianness, vec, res, samples>>

NoRes == [kind |-> "none", val |-> <<>>]

\* The operations are pure and keep nothing between calls: a behaviour is one
\* call on inputs drawn afresh, followed at most by the rescaling of what a
\* decoder returned.

Init ==
    /\ target \in Targets
    /\ op = "init"
    /\ ty = "u8"
    /\ endianness = "LE"
    /\ vec = <<>>
    /\ res = NoRes
    /\ samples = <<>>
    /\ strategy = "none"
    /\ vals = <<>>
    /\ slope = 0
    /\ intercept = 0
    /\ out = <<>>

NoTransform ==
    /\ strategy' = "none"
    /\ vals' = <<>>
    /\ slope' = 0
    /\ intercept' = 0
    /\ out' = <<>>

NoDecode ==
    /\ endianness' = "LE"
    /\ vec' = <<>>
    /\ res' = NoRes
    /\ samples' = <<>>

\* T::from_raw(src, e): one element read from a byte source.
FromRaw ==
    /\ op = "init"
    /\ \E t \in Types, e \in Endiannesses, v \in Buffers :
        /\ op' = "from_raw"
        /\ ty' = t
        /\ endianness' = e
        /\ vec' = v
        /\ res' = LET r == from_raw(t, v, e)
                  IN  IF r.kind = "ok" THEN Ok(<<r.val>>) ELSE r
        /\ samples' = <<>>
        /\ NoTransform
        /\ UNCHANGED target

\* T::from_raw_vec(vec, e) of the ten element types.
FromRawVec ==
    /\ op = "init"
    /\ \E t \in Types, e \in Endiannesses, v \in Buffers, tail \in TailPolicies :
        /\ op' = "from_raw_vec"
        /\ ty' = t
        /\ endianness' = e
        /\ vec' = v
        /\ res' = from_raw_vec(t, v, e, host_endianness(target), tail)
        /\ samples' = <<>>
        /\ NoTransform
        /\ UNCHANGED target

\* The trait's default from_raw_vec, as a type that does not override it runs it.
FromRawVecDefault ==
    /\ op = "init"
    /\ \E t \in Types, e \in Endiannesses, v \in Buffers :
        /\ op' = "from_raw_vec_default"
        /\ ty' = t
        /\ endianness' = e
        /\ vec' = v
        /\ res' = from_raw_vec_default(t, v, e, target)
        /\ samples' = <<>>
        /\ NoTransform
        /\ UNCHANGED target

\* A sample sequence written in order e and decoded by from_raw_vec in order e.
RoundTrip ==
    /\ op = "init"
    /\ \E t \in Types, e \in Endiannesses, tail \in TailPolicies :
        \E s \in SampleSeqs(t) :
            /\ op' = "round_trip"
            /\ ty' = t
            /\ endianness' = e
            /\ samples' = s
            /\ vec' = to_bytes_many(t, s, e)
            /\ res' = from_raw_vec(t, to_bytes_many(t, s, e), e, host_endianness(target), tail)
            /\ NoTransform
            /\ UNCHANGED target

\* S::linear_transform(value, slope, intercept)
LinearTransform ==
    /\ op = "init"
    /\ \E t \in Types, s \in Slopes, i \in Intercepts :
        \E st \in StrategiesOf(t), v \in Samples(t) :
            /\ op' = "linear_transform"
            /\ ty' = t
            /\ strategy' = st
            /\ vals' = <<v>>
            /\ slope' = s
            /\ intercept' = i
            /\ out' = <<linear_transform(st, t, v, s, i)>>
            /\ NoDecode
            /\ UNCHANGED target

\* S::linear_transform_many(&value, slope, intercept)
LinearTransformMany ==
    /\ op = "init"
    /\ \E t \in Types, s \in Slopes, i \in Intercepts :
        \E st \in StrategiesOf(t), v \in SeqsUpTo(Samples(t), MaxSeqLen) :
            /\ op' = "linear_transform_many"
            /\ ty' = t
            /\ strategy' = st
            /\ vals' = v
            /\ slope' = s
            /\ intercept' = i
            /\ out' = linear_transform_many(st, t, v, s, i)
            /\ NoDecode
            /\ UNCHANGED target

\* S::linear_transform_many_inline(&mut value, slope, intercept): out is the
\* caller's slice after the call, vals what it held before.
LinearTransformManyInline ==
    /\ op = "init"
    /\ \E t \in Types, s \in Slopes, i \in Intercepts :
        \E st \in StrategiesOf(t), v \in SeqsUpTo(Samples(t), MaxSeqLen) :
            /\ op' = "linear_transform_many_inline"
            /\ ty' = t
            /\ strategy' = st
            /\ vals' = v
            /\ slope' = s
            /\ intercept' = i
            /\ out' = linear_transform_many_inline(st, t, v, s, i)
            /\ NoDecode
            /\ UNCHANGED target

\* The samples a decoder returned, rescaled by the type's own Transform
\* (T::Transform::linear_transform_many).
Rescale ==
    /\ op \in {"from_raw", "from_raw_vec", "from_raw_vec_default", "round_trip"}
    /\ res.kind = "ok"
    /\ ty \in IntTypes
    /\ Len(res.val) \in 1..MaxSeqLen
    /\ \A k \in 1..Len(res.val) : Representable(ty, res.val[k])
    /\ \E s \in Slopes, i \in Intercepts :
        /\ op' = "rescale"
        /\ strategy' = Transform(ty)
        /\ vals' = [k \in 1..Len(res.val) |-> ValueOf(ty, res.val[k])]
        /\ slope' = s
        /\ intercept' = i
        /\ out' = linear_transform_many(Transform(ty), ty,
                                        [k \in 1..Len(res.val) |-> ValueOf(ty, res.val[k])],
                                        s, i)
    /\ UNCHANGED <<target, decodeVars>>

Next ==
    \/ FromRaw
    \/ FromRawVec
    \/ FromRawVecDefault
    \/ RoundTrip
    \/ LinearTransform
    \/ LinearTransformMany
    \/ LinearTransformManyInline
    \/ Rescale

Spec == Init /\ [][Next]_vars

----------------------------------------------------------------------------
\* Properties

\* The states right after a bulk decode, by an override or by the default.
BulkDecoded == op \in {"from_raw_vec", "from_raw_vec_default"}

\* The buffer holds whole elements followed by 0 < r < width more bytes.
Ragged == Width(ty) > 1 /\ Len(vec) % Width(ty) # 0

\* C1: truncated-buffer rejection.  A bulk decode of a buffer of k*w + r
\* bytes, 0 < r < w, w > 1, returns a decode error: it returns no sample
\* sequence, short or padded, and does not panic.
C1_TruncatedBufferRejected ==
    (BulkDecoded /\ Ragged) => res.kind \notin {"ok", "panic"}

\* C2: a successful bulk decode (override or default) of a buffer whose length
\* is a multiple of the width returns Len(vec) / width elements, the i-th
\* being the decode of bytes [(i-1)*width, i*width).
C2_DecodeManyLengthAndContent ==
    (BulkDecoded /\ Len(vec) % Width(ty) = 0 /\ res.kind = "ok") =>
        /\ Len(res.val) = Len(vec) \div Width(ty)
        /\ \A i \in 1..Len(res.val) :
              res.val[i] = from_raw(ty, Chunk(vec, i, Width(ty)), endianness).val

\* C3: rescale identity on zero slope.  With slope 0.0, linear_transform
\* returns the value unchanged whatever the intercept, for the three
\* strategies, and so do the two bulk forms for every element.
C3_ZeroSlopeIdentity ==
    (op \in {"linear_transform", "linear_transform_many",
             "linear_transform_many_inline", "rescale"} /\ slope = 0) => out = vals

C3_Witness ==
    /\ op = "linear_transform"
    /\ strategy = "ViaOriginal"
    /\ slope = 0
    /\ intercept # 0
    /\ vals = <<0 - 6>>
    /\ out = <<0 - 6>>

\* C4: the per-type bulk decode and the per-element path (the default
\* from_raw_vec) give the same result on the same buffer: the same elements,
\* or both an error.
C4_BulkEqualsPerElement ==
    op = "from_raw_vec" =>
        LET d == from_raw_vec_default(ty, vec, endianness, target)
        IN  \/ res.kind = "ok" /\ d.kind = "ok" /\ res.val = d.val
            \/ res.kind \notin {"ok", "panic"} /\ d.kind \notin {"ok", "panic"}

\* C5: bulk/scalar equivalence.  linear_transform_many returns a sequence of
\* the same length whose i-th element is linear_transform of the i-th input,
\* and linear_transform_many_inline leaves in the caller's slice what
\* linear_transform_many returns for it (every element transformed once).
C5_BulkScalarEquivalence ==
    /\ op = "linear_transform_many" =>
          /\ Len(out) = Len(vals)
          /\ \A k \in 1..Len(vals) :
                out[k] = linear_transform(strategy, ty, vals[k], slope, intercept)
    /\ op = "linear_transform_many_inline" =>
          /\ Len(out) = Len(vals)
          /\ \A k \in 1..Len(vals) :
                out[k] = linear_transform(strategy, ty, vals[k], slope, intercept)
          /\ out = linear_transform_many(strategy, ty, vals, slope, intercept)

C5_Witness ==
    /\ op = "linear_transform_many_inline"
    /\ Len(vals) >= 2
    /\ slope # 0
    /\ \A k \in 1..Len(vals) : out[k] # vals[k]

\* The source still holds a whole element after k - 1 of them were read.
HoldsElement(k) == Len(vec) >= k * Width(ty)

\* C6: from_raw on a source shorter than the element fails with the read
\* error and returns no element; the per-element from_raw_vec returns that
\* error, and no partial sequence, as soon as one element fails.
C6_ShortSourceIsReadError ==
    /\ (op = "from_raw" /\ Len(vec) < Width(ty)) => res = ErrIo
    /\ (op = "from_raw_vec_default"
            /\ \E k \in 1..align_of(ty, target) : ~HoldsElement(k)) => res = ErrIo

C6_Witness ==
    /\ op = "from_raw_vec_default"
    /\ ty = "u32"
    /\ HoldsElement(3)
    /\ ~HoldsElement(4)
    /\ res = ErrIo

\* C7: the two decode failures are distinct error kinds.  A buffer whose
\* length is no multiple of the width yields an error that is not the read
\* error of an exhausted source, an exhausted source yields the read error,
\* and neither panics nor returns a sequence.
C7_DistinctErrorKinds ==
    /\ (op = "from_raw_vec" /\ Ragged) => res.kind \notin {"ok", "panic", "io"}
    /\ (op = "from_raw" /\ Len(vec) < Width(ty)) => res.kind = "io"

\* C8: a u16 decoded from [b0, b1] is b0 + 256*b1 little-endian and
\* 256*b0 + b1 big-endian ([1, 0] gives 1 and 256), and the u16 value 1
\* transformed with slope 2.0 and intercept 1.0 via f32 is 3.
C8_U16Scenario ==
    /\ (op \in {"from_raw", "from_raw_vec", "round_trip", "rescale"}
            /\ ty = "u16" /\ Len(vec) = 2) =>
          /\ res.kind = "ok"
          /\ Len(res.val) = 1
          /\ ValueOf("u16", res.val[1]) =
                IF endianness = "LE" THEN vec[1] + 256 * vec[2]
                                     ELSE 256 * vec[1] + vec[2]
    /\ (op \in {"linear_transform", "linear_transform_many",
                "linear_transform_many_inline", "rescale"}
            /\ ty = "u16" /\ strategy = "ViaF32"
            /\ vals = <<1>> /\ slope = 8 /\ intercept = 4) => out = <<3>>

C8_Witness ==
    /\ op = "rescale"
    /\ ty = "u16"
    /\ endianness = "LE"
    /\ vec = <<1, 0>>
    /\ res = Ok(<<(<<1, 0>>)>>)
    /\ vals = <<1>>
    /\ slope = 8
    /\ intercept = 4
    /\ out = <<3>>

\* C9: round trip.  A sample sequence written in byte order B and decoded by
\* from_raw_vec in order B is the sequence again, for the ten types; for u8
\* and i8 the decoded result is the same under both byte orders.
C9_RoundTripIdentity ==
    /\ op = "round_trip" => res = Ok(samples)
    /\ (op \in {"from_raw_vec", "round_trip"} /\ Width(ty) = 1) =>
          \A e \in Endiannesses, tail \in TailPolicies :
              from_raw_vec(ty, vec, e, host_endianness(target), tail) = res

C9_Witness ==
    /\ op = "round_trip"
    /\ ty = "i64"
    /\ endianness # host_endianness(target)
    /\ Len(samples) = 2
    /\ samples[1] # Reverse(samples[1])
    /\ res = Ok(samples)

\* C10: 32-bit float precision suffices for the types given to the via-f32
\* strategy: with slope 1.0 and intercept 0.0 linear_transform returns the
\* value itself.
C10_F32IsSufficient ==
    (op = "linear_transform" /\ strategy = "ViaF32" /\ Transform(ty) = "ViaF32"
        /\ slope = 4 /\ intercept = 0) => out = vals

====
